---- MODULE Spec2Model ----
(***************************************************************************)
(* Notification queue and delivery orchestration of stack_notifications:   *)
(* RedisManager's notification methods (redis-manager.ts) over a model of  *)
(* the Redis keyspace, driven by admission callers, dispatch workers and   *)
(* the retry-lane sweep.                                                    *)
(***************************************************************************)
EXTENDS Integers, Sequences, FiniteSets, TLC

\* ------------------------------------------------------------------ bounds
MaxIds == 3          \* envelopes admitted in one run
MaxTime == 3         \* clock ticks in one run
MaxCalls == 3        \* checkRateLimit calls in one run
MaxDispatched == 1   \* envelopes admitted in one run of the dispatch system
MaxRuns == 2         \* successive cleanup runs, getQueueStats calls in one run
MaxClients == 6      \* pairs of Redis clients created in one run
MaxSubs == 3         \* subscribe calls in one run
MaxMsgs == 2         \* messages published on the application channels

\* --------------------------------------------- configuration (scaled down)
perUser == 2         \* config.redis.notifications.rateLimits.perUser
window == 2          \* config.redis.notifications.rateLimits.window, in ticks
ttlNotification == 3 \* config.redis.notifications.ttl.notification, in ticks
ttlCache == 2        \* config.redis.notifications.ttl.cache, in ticks
retryUnit == 1       \* the 60000 ms of moveToRetryQueue, in ticks
dayUnit == 1         \* the 24 * 60 * 60 * 1000 ms of cleanupOldNotifications, in ticks
maxRetries == 2      \* config.tasks.retryFailedNotifications.maxRetries
maxReconnectAttempts == 2 \* RedisManager.maxReconnectAttempts (10)

keyPrefix == "olpd:"

Types == {"email", "sms"}
HighPriorities == {"urgent", "high"}
LowPriorities == {"normal", "low"}
Priorities == HighPriorities \cup LowPriorities
Statuses == {"pending", "processing", "sent", "failed", "retry"}
Users == {"u1"}
NoUser == "-"
Producers == {"p1", "p2"}
Workers == {"w1", "w2"}
Clients == {"c1"}
Callers == Workers \cup Clients
BurstCallers == {"b1", "b2", "b3"}
NoExpiry == -1

VARIABLES
  now,      \* Date.now(), in ticks
  lists,    \* Redis lists: key -> sequence of serialized envelopes
  kv,       \* Redis string keys: key -> [val, exp]
  nextId,   \* random part of the next generated id
  prod,     \* admission callers: position and locals
  work,     \* dispatch workers: position and locals
  upd,      \* updateNotificationStatus calls in progress, per caller
  batch,    \* per channel, the <<id, priority>> pushed since its last dequeue
  lastBatch, \* per channel, batch as it was at the last dequeue
  deqd,     \* per channel, the id the last dequeue returned
  before,   \* pairs <<a, b>> of queued ids: a was pushed before b, same lane,
            \* with no dequeue of the channel in between
  winId,    \* per rate-limit key, how many windows have expired
  winCalls, \* per rate-limit key, INCRs served in the current window
  calls,    \* checkRateLimit calls started
  admitted, \* envelopes pushed on behalf of a user, with their rate check
  touched,  \* ids whose status record was written by updateNotificationStatus
  outcome,  \* per id, the terminal step the worker finished for it
  tally,    \* envelopes pushed on and popped off the channel queues so far
  clean,    \* the last cleanupOldNotifications run and what it returned
  stats,    \* what the last getQueueStats call returned
  srv,      \* the Server: HTTP server, Redis clients, shutdown runs, messages
  mgr,      \* the RedisManager's connection fields and its connect() calls
  bus,      \* pub/sub: channels subscribed, listeners, messages, invocations
  sweep     \* cleanupOldNotifications calls in progress, step by step

vars == <<now, lists, kv, nextId, prod, work, upd, batch, lastBatch, deqd,
          before, winId, winCalls,
          calls, admitted, touched, outcome, tally, clean, stats, srv, mgr, bus, sweep>>

\* ------------------------------------------------------------ conversions
\* JSON.stringify of a flat object: its own fields as key/value pairs.
Stringify(obj) == {<<k, obj[k]>> : k \in DOMAIN obj}

\* JSON.parse of such a string: the object with those fields.
Parse(str) == [k \in {p[1] : p \in str} |-> (CHOOSE p \in str : p[1] = k)[2]]

\* new Date(t).toISOString() and new Date(iso).getTime()
toISOString(t) == <<"ISO", t>>
DateOf(iso) == iso[2]

\* { ...obj, ...extra }: the fields of extra override those of obj.
Spread(obj, extra) ==
  [k \in DOMAIN obj \cup DOMAIN extra |->
     IF k \in DOMAIN extra THEN extra[k] ELSE obj[k]]

\* ------------------------------------------------------------ the keyspace
\* ioredis prepends redisOptions.keyPrefix to every key argument.
Prefixed(key) == <<keyPrefix>> \o key

queueMap == [email |-> <<"queue:email">>, sms |-> <<"queue:sms">>,
             push |-> <<"queue:push">>]
retryQueue == <<keyPrefix, "queue:retry">>
statusKey(id) == <<keyPrefix, "notification:status:", id>>
rateKey(type, userId) == <<keyPrefix, "rate_limit:", type, userId>>

ListKeys == {Prefixed(queueMap[t]) : t \in Types} \cup {Prefixed(retryQueue)}
RateKeys == {Prefixed(rateKey(t, u)) : t \in Types, u \in Users}

Exists(key) == Prefixed(key) \in DOMAIN kv

\* RedisManager.set(key, value, ttl): SET key value EX ttl
SetEx(store, key, value, ttl) ==
  [k \in DOMAIN store \cup {Prefixed(key)} |->
     IF k = Prefixed(key) THEN [val |-> value, exp |-> now + ttl]
     ELSE store[k]]

\* RedisManager.get(key): the parsed value (only called when the key exists)
Get(key) == Parse(kv[Prefixed(key)].val)

\* keys whose expiry has been reached at time t are gone
Unexpired(store, t) ==
  [k \in {x \in DOMAIN store : store[x].exp = NoExpiry \/ store[x].exp > t}
     |-> store[k]]

\* ------------------------------------------------- what the queues have seen
IsHigh(priority) == priority \in HighPriorities

\* a push of id on channel t, as Redis served it
Pushed(t, id, priority) ==
  /\ batch' = [batch EXCEPT ![t] = Append(@, <<id, priority>>)]
  /\ before' = before \cup
                 {<<batch[t][i][1], id>> :
                    i \in {j \in 1..Len(batch[t]) :
                             IsHigh(batch[t][j][2]) = IsHigh(priority)}}
  /\ tally' = [tally EXCEPT !.enq = @ + 1]
  /\ UNCHANGED <<lastBatch, deqd>>

\* a pop of channel t that returned id
Popped(t, id) ==
  /\ lastBatch' = [lastBatch EXCEPT ![t] = batch[t]]
  /\ batch' = [batch EXCEPT ![t] = <<>>]
  /\ deqd' = [deqd EXCEPT ![t] = id]
  /\ before' = {pr \in before : pr[1] # id /\ pr[2] # id}
  /\ tally' = [tally EXCEPT !.deq = @ + 1]

\* ------------------------------------------------------------------- Init
IdleProd == [pc |-> "idle", user |-> NoUser, type |-> "email",
             priority |-> "normal", nd |-> <<>>, cur |-> 0, k |-> 0,
             win |-> 0, allowed |-> TRUE, remaining |-> 0, resetIn |-> 0,
             ret |-> <<>>, setAt |-> 0]
IdleWork == [pc |-> "idle", type |-> "email", env |-> <<>>]
IdleUpd == [pc |-> "none", id |-> <<>>, status |-> "pending",
            extra |-> <<>>, cur |-> <<>>]

\* no cleanup has run, no statistics were asked for
NoClean == [streak |-> 0, days |-> 0, at |-> 0, deleted |-> 0,
            removed |-> {}, after |-> <<>>]
NoStats == [calls |-> 0, queues |-> <<>>, status |-> <<>>]

\* after Server.initialize: listening, both Redis clients connected and
\* subscribed to system:shutdown and system:maintenance, no shutdown running
Runs == {"r1", "r2"}
ServerUp == [http |-> "listening", redis |-> "connected", proc |-> "up",
             sub |-> TRUE,
             run |-> [r \in Runs |-> [pc |-> "idle", by |-> "-"]],
             inbox |-> {}, sent |-> 0, maintAt |-> 0, shutdownSeen |-> FALSE]

\* after RedisManager.initialize: connect() succeeded with the first pair of
\* clients, the health-check interval is armed, no connect() call is running
Chains == {"init", "h1", "h2"}
IdleChain == [pc |-> "idle", gen |-> 0, made |-> 0, quit |-> FALSE]
ManagerUp == [initialized |-> TRUE, client |-> 1, subscriber |-> 1,
              ready |-> {1}, reconnectAttempts |-> 0, health |-> TRUE,
              created |-> 1, disc |-> "idle",
              chain |-> [c \in Chains |-> IdleChain]]

\* pub/sub on the application channels: nothing subscribed, no "message"
\* listener on the subscriber client, nothing published
Channels == {"orders", "alerts"}
Callbacks == {"cb1", "cb2"}
NoBus == [subscribed |-> {}, listeners |-> <<>>,
          active |-> [ch \in Channels |-> {}],
          call |-> [pc |-> "idle", channel |-> "orders", callback |-> "cb1"],
          calls |-> 0, sent |-> 0, log |-> {}]
\* no cleanupOldNotifications call is in progress, none has returned
Sweepers == {"s1", "s2"}
IdleSweep == [pc |-> "idle", keys |-> {}, key |-> <<>>, at |-> 0,
              cutoff |-> 0, deleted |-> 0, overlap |-> FALSE]
NoSweep == [calls |-> 0, returned |-> 0, removed |-> 0,
            run |-> [s \in Sweepers |-> IdleSweep]]

Init ==
  /\ now = 0
  /\ lists = [k \in ListKeys |-> <<>>]
  /\ kv = <<>>
  /\ nextId = 1
  /\ prod = [p \in Producers \cup BurstCallers |-> IdleProd]
  /\ work = [w \in Workers |-> IdleWork]
  /\ upd = [c \in Callers |-> IdleUpd]
  /\ batch = [t \in Types |-> <<>>]
  /\ lastBatch = [t \in Types |-> <<>>]
  /\ deqd = [t \in Types |-> <<>>]
  /\ before = {}
  /\ winId = [k \in RateKeys |-> 0]
  /\ winCalls = [k \in RateKeys |-> 0]
  /\ calls = 0
  /\ admitted = {}
  /\ touched = {}
  /\ outcome = <<>>
  /\ tally = [enq |-> 0, deq |-> 0]
  /\ clean = NoClean
  /\ stats = NoStats
  /\ srv = ServerUp
  /\ mgr = ManagerUp
  /\ bus = NoBus
  /\ sweep = NoSweep

\* ------------------------------------------------ RedisManager.checkRateLimit
\* allowed: current < limit (off by one)
rateAllowedStrict(current) == current < perUser

\* allowed: current <= limit + 1 (off by one the other way)
rateAllowedLax(current) == current <= perUser + 1

\* allowed: current <= limit
rateAllowed(current) == current <= perUser

\* remaining: Math.max(0, limit - current)
rateRemaining(current) == IF perUser - current > 0 THEN perUser - current ELSE 0

\* TTL key: -2 for a missing key, -1 for a key without expiry
Ttl(key) ==
  IF ~Exists(key) THEN -2
  ELSE IF kv[Prefixed(key)].exp = NoExpiry THEN -1
  ELSE kv[Prefixed(key)].exp - now

\* every check sets the expiry again (a sliding window)
isFirstAlways(current) == TRUE

\* if (current === 1): the call that created the counter
isFirst(current) == current = 1

\* INCR that loses the increment when the counter already exists
incrStale(key) == IF Exists(key) THEN kv[Prefixed(key)].val ELSE 1

\* INCR key: the value after adding one, a missing key counting as 0
incr(key) == IF Exists(key) THEN kv[Prefixed(key)].val + 1 ELSE 1

\* const current = await client.incr(key)
checkRateLimitIncr(p) ==
  LET key == rateKey(prod[p].type, prod[p].user)
      k == Prefixed(key)
      current == incr(key)
  IN /\ prod[p].pc = "rl_incr"
     /\ kv' = [x \in DOMAIN kv \cup {k} |->
                 IF x = k
                 THEN [val |-> current,
                       exp |-> IF Exists(key) THEN kv[k].exp ELSE NoExpiry]
                 ELSE kv[x]]
     /\ winCalls' = [winCalls EXCEPT ![k] = @ + 1]
     /\ prod' = [prod EXCEPT ![p].cur = current,
                             ![p].k = winCalls[k] + 1,
                             ![p].win = winId[k],
                             ![p].pc = IF isFirst(current) THEN "rl_expire"
                                       ELSE "rl_ttl"]
     /\ UNCHANGED <<now, lists, nextId, work, upd, batch, lastBatch, deqd, before, winId, calls,
                    admitted, touched, outcome,
                 tally, clean, stats, srv, mgr, bus, sweep>>

\* if (current === 1) await client.expire(key, window)
checkRateLimitExpire(p) ==
  LET key == rateKey(prod[p].type, prod[p].user)
      k == Prefixed(key)
  IN /\ prod[p].pc = "rl_expire"
     /\ kv' = IF Exists(key)
              THEN [kv EXCEPT ![k].exp = now + window]
              ELSE kv
     /\ prod' = [prod EXCEPT ![p].pc = "rl_ttl"]
     /\ UNCHANGED <<now, lists, nextId, work, upd, batch, lastBatch, deqd, before, winId, winCalls,
                    calls, admitted, touched, outcome,
                 tally, clean, stats, srv, mgr, bus, sweep>>

\* const ttl = await client.ttl(key); return {allowed, remaining, resetIn}
checkRateLimitTtl(p) ==
  LET ttl == Ttl(rateKey(prod[p].type, prod[p].user))
  IN /\ prod[p].pc = "rl_ttl"
     /\ prod' = [prod EXCEPT ![p].allowed = rateAllowed(prod[p].cur),
                             ![p].remaining = rateRemaining(prod[p].cur),
                             ![p].resetIn = IF ttl > 0 THEN ttl ELSE window,
                             ![p].pc = "rl_done"]
     /\ UNCHANGED <<now, lists, kv, nextId, work, upd, batch, lastBatch, deqd, before, winId, winCalls,
                    calls, admitted, touched, outcome,
                 tally, clean, stats, srv, mgr, bus, sweep>>

\* --------------------------------------------- RedisManager.enqueueNotification
\* notificationData that counts the admission as a first attempt
notificationDataAttempted(type, notification, priority) ==
  [id |-> <<type, now, nextId>>, type |-> type, priority |-> priority,
   data |-> notification, timestamp |-> toISOString(now), attempts |-> 1,
   status |-> "pending"]

\* const notificationData = { id, type, priority, data, timestamp, attempts, status }
notificationData(type, notification, priority) ==
  [id |-> <<type, now, nextId>>, type |-> type, priority |-> priority,
   data |-> notification, timestamp |-> toISOString(now), attempts |-> 0,
   status |-> "pending"]

\* LPUSH for urgent only
pushUrgentOnly(list, priority, str) ==
  IF priority = "urgent"
  THEN <<str>> \o list
  ELSE Append(list, str)

\* LPUSH for urgent/high, RPUSH otherwise
pushByPriority(list, priority, str) ==
  IF priority = "urgent" \/ priority = "high"
  THEN <<str>> \o list
  ELSE Append(list, str)

\* await client.lpush(...) / await client.rpush(...)
enqueueNotificationPush(p) ==
  LET nd == prod[p].nd
      queue == Prefixed(queueMap[nd.type])
  IN /\ prod[p].pc = "enq_push"
     /\ lists' = [lists EXCEPT
                    ![queue] = pushByPriority(@, nd.priority, Stringify(nd))]
     /\ Pushed(nd.type, nd.id, nd.priority)
     /\ admitted' = IF prod[p].user = NoUser THEN admitted
                    ELSE admitted \cup
                           {[id |-> nd.id,
                             key |-> Prefixed(rateKey(nd.type, prod[p].user)),
                             win |-> prod[p].win,
                             allowed |-> prod[p].allowed]}
     /\ prod' = [prod EXCEPT ![p].pc = "enq_set"]
     /\ UNCHANGED <<now, kv, nextId, work, upd, winId, winCalls, calls,
                    touched, outcome,
                 clean, stats, srv, mgr, bus, sweep>>

\* await this.set(statusKey, notificationData, ttl.notification); return id
enqueueNotificationSet(p) ==
  LET nd == prod[p].nd
  IN /\ prod[p].pc = "enq_set"
     /\ kv' = SetEx(kv, statusKey(nd.id), Stringify(nd), ttlNotification)
     /\ prod' = [prod EXCEPT ![p].ret = nd.id, ![p].setAt = now,
                             ![p].pc = "returned"]
     /\ UNCHANGED <<now, lists, nextId, work, upd, batch, lastBatch, deqd, before, winId, winCalls,
                    calls, admitted, touched, outcome,
                 tally, clean, stats, srv, mgr, bus, sweep>>

\* await client.lpush / rpush rejects (store unavailable): the call throws
\* before anything is written.
enqueueNotificationPushError(p) ==
  /\ prod[p].pc = "enq_push"
  /\ prod' = [prod EXCEPT ![p].pc = "threw"]
  /\ UNCHANGED <<now, lists, kv, nextId, work, upd, batch, lastBatch, deqd,
                 before, winId, winCalls, calls, admitted, touched, outcome,
                 tally, clean, stats, srv, mgr, bus, sweep>>

\* await this.set rejects (store unavailable): the call throws after the
\* push, and nothing takes the envelope back off the queue.
enqueueNotificationSetError(p) ==
  /\ prod[p].pc = "enq_set"
  /\ prod' = [prod EXCEPT ![p].pc = "threw"]
  /\ UNCHANGED <<now, lists, kv, nextId, work, upd, batch, lastBatch, deqd,
                 before, winId, winCalls, calls, admitted, touched, outcome,
                 tally, clean, stats, srv, mgr, bus, sweep>>

\* ------------------------------------------------------- admission (caller)
\* A caller without a userId calls enqueueNotification directly.
admitDirect(p, type, priority) ==
  /\ prod[p].pc = "idle"
  /\ nextId <= MaxIds
  /\ nextId' = nextId + 1
  /\ prod' = [prod EXCEPT ![p] =
                [IdleProd EXCEPT !.pc = "enq_push", !.type = type,
                                 !.priority = priority,
                                 !.nd = notificationData(type, NoUser, priority)]]
  /\ UNCHANGED <<now, lists, kv, work, upd, batch, lastBatch, deqd, before, winId, winCalls, calls,
                 admitted, touched, outcome,
                 tally, clean, stats, srv, mgr, bus, sweep>>

\* A caller with a userId starts with the rate check.
admitChecked(p, userId, type, priority) ==
  /\ prod[p].pc = "idle"
  /\ calls < MaxCalls
  /\ calls' = calls + 1
  /\ prod' = [prod EXCEPT ![p] =
                [IdleProd EXCEPT !.pc = "rl_incr", !.user = userId,
                                 !.type = type, !.priority = priority]]
  /\ UNCHANGED <<now, lists, kv, nextId, work, upd, batch, lastBatch, deqd, before, winId, winCalls,
                 admitted, touched, outcome,
                 tally, clean, stats, srv, mgr, bus, sweep>>

\* rate check -> enqueue: only an allowed check goes on to enqueueNotification.
admitDecide(p) ==
  /\ prod[p].pc = "rl_done"
  /\ IF prod[p].allowed
     THEN /\ nextId <= MaxIds
          /\ nextId' = nextId + 1
          /\ prod' = [prod EXCEPT
                        ![p].pc = "enq_push",
                        ![p].nd = notificationData(prod[p].type, prod[p].user,
                                                   prod[p].priority)]
     ELSE /\ nextId' = nextId
          /\ prod' = [prod EXCEPT ![p].pc = "rejected"]
  /\ UNCHANGED <<now, lists, kv, work, upd, batch, lastBatch, deqd, before, winId, winCalls, calls,
                 admitted, touched, outcome,
                 tally, clean, stats, srv, mgr, bus, sweep>>

\* The caller is done with the id (or the rejection, or the error) and may
\* admit again.
admitDone(p) ==
  /\ prod[p].pc \in {"returned", "rejected", "threw"}
  /\ prod' = [prod EXCEPT ![p] = IdleProd]
  /\ UNCHANGED <<now, lists, kv, nextId, work, upd, batch, lastBatch, deqd, before, winId, winCalls,
                 calls, admitted, touched, outcome,
                 tally, clean, stats, srv, mgr, bus, sweep>>

\* ------------------------------------------- RedisManager.getNotificationStatus
\* return await this.get(statusKey): the parsed record, or NotFound for null
NotFound == [status |-> "null"]
getNotificationStatus(notificationId) ==
  IF Exists(statusKey(notificationId)) THEN Get(statusKey(notificationId))
  ELSE NotFound

\* ---------------------------------------- RedisManager.updateNotificationStatus
\* the base notification TTL whatever the status
statusTtlFlat(status) == ttlNotification

\* ttl by status: failed -> notification * 2, sent -> cache, else notification
statusTtl(status) ==
  IF status = "failed" THEN ttlNotification * 2
  ELSE IF status = "sent" THEN ttlCache
  ELSE ttlNotification

\* { ...currentStatus, status, lastUpdate, ...additionalData }
updatedStatus(currentStatus, status, additionalData) ==
  Spread(Spread(currentStatus,
                [status |-> status, lastUpdate |-> toISOString(now)]),
         additionalData)

\* the call as its caller starts it
updateCall(notificationId, status, additionalData) ==
  [pc |-> "get", id |-> notificationId, status |-> status,
   extra |-> additionalData, cur |-> <<>>]

\* const currentStatus = await this.get(statusKey); if (currentStatus) ...
updateNotificationStatusGet(c) ==
  /\ upd[c].pc = "get"
  /\ upd' = IF Exists(statusKey(upd[c].id))
            THEN [upd EXCEPT ![c].cur = Get(statusKey(upd[c].id)),
                             ![c].pc = "set"]
            ELSE [upd EXCEPT ![c].pc = "ret"]
  /\ UNCHANGED <<now, lists, kv, nextId, prod, work, batch, lastBatch, deqd, before, winId, winCalls,
                 calls, admitted, touched, outcome,
                 tally, clean, stats, srv, mgr, bus, sweep>>

\* await this.set(statusKey, updatedStatus, ttl)
updateNotificationStatusSet(c) ==
  /\ upd[c].pc = "set"
  /\ kv' = SetEx(kv, statusKey(upd[c].id),
                 Stringify(updatedStatus(upd[c].cur, upd[c].status,
                                         upd[c].extra)),
                 statusTtl(upd[c].status))
  /\ touched' = touched \cup {upd[c].id}
  /\ upd' = [upd EXCEPT ![c].pc = "ret"]
  /\ UNCHANGED <<now, lists, nextId, prod, work, batch, lastBatch, deqd, before, winId, winCalls,
                 calls, admitted, outcome,
                 tally, clean, stats, srv, mgr, bus, sweep>>

\* --------------------------------------------- RedisManager.dequeueNotification
\* reads the head and leaves it in the list
lpopPeek(list) == list

\* what LPOP / BLPOP leave of a non-empty list: all but its head
lpop(list) == Tail(list)

\* LPOP / BLPOP of a non-empty queue, JSON.parse of the element; the worker
\* then starts update(id, processing).
dequeueNotification(w, type) ==
  LET queue == Prefixed(queueMap[type])
      notification == Parse(Head(lists[queue]))
  IN /\ work[w].pc = "idle"
     /\ lists[queue] # <<>>
     /\ lists' = [lists EXCEPT ![queue] = lpop(@)]
     /\ Popped(type, notification.id)
     /\ work' = [work EXCEPT ![w] = [pc |-> "marking", type |-> type,
                                     env |-> notification]]
     /\ upd' = [upd EXCEPT ![w] = updateCall(notification.id, "processing", <<>>)]
     /\ UNCHANGED <<now, kv, nextId, prod, winId, winCalls, calls, admitted,
                    touched, outcome,
                 clean, stats, srv, mgr, bus, sweep>>

\* ------------------------------------------------------------ dispatch worker
SendResults == {"ok", "transient", "permanent"}

attemptsOf(notification) ==
  IF "attempts" \in DOMAIN notification THEN notification.attempts ELSE 0

\* retriable, with one attempt too many
mayRetryOnceMore(notification, result) ==
  result = "transient" /\ attemptsOf(notification) <= maxRetries

\* retriable and attempts remain
mayRetry(notification, result) ==
  result = "transient" /\ attemptsOf(notification) < maxRetries

\* The provider's send returns; the worker starts the matching update.
workerSend(w, result) ==
  LET n == work[w].env
  IN /\ work[w].pc = "marking"
     /\ upd[w].pc = "ret"
     /\ IF result = "ok"
        THEN /\ work' = [work EXCEPT ![w].pc = "finishing_sent"]
             /\ upd' = [upd EXCEPT ![w] =
                          updateCall(n.id, "sent",
                                     [sentAt |-> toISOString(now),
                                      providerResponse |-> "accepted"])]
        ELSE IF mayRetry(n, result)
        THEN /\ work' = [work EXCEPT ![w].pc = "retrying"]
             /\ upd' = [upd EXCEPT ![w] =
                          updateCall(n.id, "retry",
                                     [attempts |-> attemptsOf(n) + 1])]
        ELSE /\ work' = [work EXCEPT ![w].pc = "finishing_failed"]
             /\ upd' = [upd EXCEPT ![w] =
                          updateCall(n.id, "failed",
                                     [failureReason |-> result,
                                      providerResponse |-> "rejected"])]
     /\ UNCHANGED <<now, lists, kv, nextId, prod, batch, lastBatch, deqd, before, winId, winCalls,
                    calls, admitted, touched, outcome,
                 tally, clean, stats, srv, mgr, bus, sweep>>

SetOutcome(f, id, o) ==
  [x \in DOMAIN f \cup {id} |-> IF x = id THEN o ELSE f[x]]

\* update(id, sent | failed) has returned: the envelope is done.
workerFinish(w) ==
  /\ work[w].pc \in {"finishing_sent", "finishing_failed"}
  /\ upd[w].pc = "ret"
  /\ outcome' = SetOutcome(outcome, work[w].env.id,
                           IF work[w].pc = "finishing_sent" THEN "sent"
                           ELSE "failed")
  /\ work' = [work EXCEPT ![w] = IdleWork]
  /\ upd' = [upd EXCEPT ![w] = IdleUpd]
  /\ UNCHANGED <<now, lists, kv, nextId, prod, batch, lastBatch, deqd, before, winId, winCalls, calls,
                 admitted, touched,
                 tally, clean, stats, srv, mgr, bus, sweep>>

\* ------------------------------------------------ RedisManager.moveToRetryQueue
\* nextRetry a fixed 60000 ms ahead, whatever the attempts
retryEnvelopeFlat(notification) ==
  LET attempts == attemptsOf(notification) + 1
  IN Spread(notification,
            [attempts |-> attempts,
             nextRetry |-> toISOString(now + retryUnit)])

\* notification.attempts = (notification.attempts || 0) + 1
\* notification.nextRetry = new Date(Date.now() + attempts * 60000).toISOString()
retryEnvelope(notification) ==
  LET attempts == attemptsOf(notification) + 1
  IN Spread(notification,
            [attempts |-> attempts,
             nextRetry |-> toISOString(now + attempts * retryUnit)])

\* update(id, retry) has returned; await client.rpush(retryQueue, ...)
moveToRetryQueue(w) ==
  /\ work[w].pc = "retrying"
  /\ upd[w].pc = "ret"
  /\ DateOf(retryEnvelope(work[w].env).nextRetry) <= MaxTime
  /\ lists' = [lists EXCEPT ![Prefixed(retryQueue)] =
                 Append(@, Stringify(retryEnvelope(work[w].env)))]
  /\ outcome' = SetOutcome(outcome, work[w].env.id, "retry")
  /\ work' = [work EXCEPT ![w] = IdleWork]
  /\ upd' = [upd EXCEPT ![w] = IdleUpd]
  /\ UNCHANGED <<now, kv, nextId, prod, batch, lastBatch, deqd, before, winId, winCalls, calls,
                 admitted, touched,
                 tally, clean, stats, srv, mgr, bus, sweep>>

\* ------------------------------------------------------------ retry-lane sweep
RemoveAt(seq, i) == SubSeq(seq, 1, i - 1) \o SubSeq(seq, i + 1, Len(seq))

\* due only after nextRetry has passed
isDueLate(notification) == DateOf(notification.nextRetry) < now

isDue(notification) == DateOf(notification.nextRetry) <= now

\* The periodic task takes one due envelope off the retry lane and
\* re-enqueues it into the queue of its channel.
retrySweep(i) ==
  LET lane == lists[Prefixed(retryQueue)]
      n == Parse(lane[i])
      queue == Prefixed(queueMap[n.type])
  IN /\ i \in 1..Len(lane)
     /\ isDue(n)
     /\ lists' = [lists EXCEPT
                    ![Prefixed(retryQueue)] = RemoveAt(lane, i),
                    ![queue] = pushByPriority(@, n.priority, lane[i])]
     /\ Pushed(n.type, n.id, n.priority)
     /\ UNCHANGED <<now, kv, nextId, prod, work, upd, winId, winCalls, calls,
                    admitted, touched, outcome,
                 clean, stats, srv, mgr, bus, sweep>>

\* ------------------------------------------------------- other status callers
KnownIds == {nd.id : nd \in {prod[p].nd : p \in {q \in Producers :
                                        prod[q].pc \in {"enq_set", "returned"}}}}

\* Any caller of the public method: updateNotificationStatus(id, status).
clientUpdate(c, notificationId, status) ==
  /\ upd[c].pc \in {"none", "ret"}
  /\ notificationId \in KnownIds
  /\ upd' = [upd EXCEPT ![c] = updateCall(notificationId, status, <<>>)]
  /\ UNCHANGED <<now, lists, kv, nextId, prod, work, batch, lastBatch, deqd, before, winId, winCalls,
                 calls, admitted, touched, outcome,
                 tally, clean, stats, srv, mgr, bus, sweep>>

\* ----------------------------------------------------------- RedisManager.keys
\* KEYS pattern: ioredis sends a pattern as it is given (keyPrefix is applied
\* to key arguments, not to patterns) and the reply holds the stored names.
Matches(key, pattern) ==
  /\ Len(key) >= Len(pattern)
  /\ \A i \in 1..(Len(pattern) - 1) : key[i] = pattern[i]

keys(pattern) == {k \in DOMAIN kv : Matches(k, pattern)}

\* `${config.redis.keyPrefix}notification:status:*`
statusPattern == <<keyPrefix, "notification:status:", "*">>

\* RedisManager.del(...keys): DEL of the prefixed names
Del(store, names) ==
  [k \in DOMAIN store \ {Prefixed(x) : x \in names} |-> store[k]]

\* ------------------------------------- RedisManager.cleanupOldNotifications
\* for (const key of keys): status = await this.get(key);
\* status && status.timestamp && new Date(status.timestamp) < cutoffDate
cleanupVictims(daysToKeep) ==
  {key \in keys(statusPattern) :
     /\ Exists(key)
     /\ "timestamp" \in DOMAIN Get(key)
     /\ DateOf(Get(key).timestamp) < now - daysToKeep * dayUnit}

\* deleted counts the old status records it saw, whether or not it deleted them
cleanupDeletedSeen(daysToKeep) ==
  Cardinality({k \in DOMAIN kv :
                 /\ Len(k) = 4 /\ k[3] = "notification:status:"
                 /\ DateOf(Parse(kv[k].val).timestamp) < now - daysToKeep * dayUnit})

\* deleted++ for every key it deleted
cleanupDeleted(daysToKeep) == Cardinality(cleanupVictims(daysToKeep))

\* One run, with nothing else running meanwhile. clean.streak counts the runs
\* made one after the other with the same daysToKeep on an unchanged store.
cleanupOldNotifications(daysToKeep) ==
  LET store == Del(kv, cleanupVictims(daysToKeep))
      again == /\ clean.streak > 0
               /\ clean.days = daysToKeep
               /\ clean.at = now
               /\ clean.after = kv
  IN /\ again => clean.streak < MaxRuns
     /\ kv' = store
     /\ clean' = [streak |-> IF again THEN clean.streak + 1 ELSE 1,
                  days |-> daysToKeep,
                  at |-> now,
                  deleted |-> cleanupDeleted(daysToKeep),
                  removed |-> [k \in DOMAIN kv \ DOMAIN store |-> kv[k]],
                  after |-> store]
     /\ UNCHANGED <<now, lists, nextId, prod, work, upd, batch, lastBatch,
                    deqd, before, winId, winCalls, calls, admitted, touched,
                    outcome, tally, stats, srv, mgr, bus, sweep>>

\* ---------------------------------------------- RedisManager.getQueueStats
\* client.llen(queue): 0 for a list that does not exist
LLen(key) ==
  IF Prefixed(key) \in DOMAIN lists THEN Len(lists[Prefixed(key)]) ELSE 0

\* for (const key of keys): status = await this.get(key);
\* if (status && status.status) statusCounts[status.status]++
statusCounts ==
  [st \in Statuses |->
     Cardinality({key \in keys(statusPattern) :
                    /\ Exists(key)
                    /\ "status" \in DOMAIN Get(key)
                    /\ Get(key).status = st})]

getQueueStats ==
  /\ stats.calls < MaxRuns
  /\ stats' = [calls |-> stats.calls + 1,
               queues |-> [email |-> LLen(queueMap.email),
                           push |-> LLen(queueMap.push),
                           sms |-> LLen(queueMap.sms),
                           total |-> LLen(queueMap.email) + LLen(queueMap.push)
                                       + LLen(queueMap.sms)],
               status |-> statusCounts]
  /\ UNCHANGED <<now, lists, kv, nextId, prod, work, upd, batch, lastBatch,
                 deqd, before, winId, winCalls, calls, admitted, touched,
                 outcome, tally, clean, srv, mgr, bus, sweep>>

\* ------------------------------------------------------------------- time
\* The clock advances; keys whose expiry is reached disappear, and a
\* rate-limit key that disappears ends its window.
Tick ==
  /\ now < MaxTime
  /\ now' = now + 1
  /\ kv' = Unexpired(kv, now + 1)
  /\ winId' = [k \in RateKeys |->
                 IF k \in DOMAIN kv /\ k \notin DOMAIN Unexpired(kv, now + 1)
                 THEN winId[k] + 1 ELSE winId[k]]
  /\ winCalls' = [k \in RateKeys |->
                    IF k \in DOMAIN kv /\ k \notin DOMAIN Unexpired(kv, now + 1)
                    THEN 0 ELSE winCalls[k]]
  /\ UNCHANGED <<lists, nextId, prod, work, upd, batch, lastBatch, deqd, before, calls, admitted,
                 touched, outcome,
                 tally, clean, stats, srv, mgr, bus, sweep>>

\* ------------------------------------------------------------ specifications
\* Queue order: one producer and one consumer on one channel, every priority.
NextQueue ==
  \/ \E pr \in Priorities : admitDirect("p1", "email", pr)
  \/ enqueueNotificationPush("p1")
  \/ enqueueNotificationSet("p1")
  \/ admitDone("p1")
  \/ dequeueNotification("w1", "email")
  \/ updateNotificationStatusGet("w1")
  \/ updateNotificationStatusSet("w1")
  \/ workerSend("w1", "ok")
  \/ workerFinish("w1")

SpecQueue == Init /\ [][NextQueue]_vars

\* Admission with a rate check: two callers for one user, the clock running.
NextRate ==
  \/ \E p \in Producers : admitChecked(p, "u1", "sms", "normal")
  \/ \E p \in Producers : checkRateLimitIncr(p)
  \/ \E p \in Producers : checkRateLimitExpire(p)
  \/ \E p \in Producers : checkRateLimitTtl(p)
  \/ \E p \in Producers : admitDecide(p)
  \/ \E p \in Producers : enqueueNotificationPush(p)
  \/ \E p \in Producers : enqueueNotificationSet(p)
  \/ \E p \in Producers : admitDone(p)
  \/ Tick

SpecRate == Init /\ [][NextRate]_vars

\* Status records: admissions and any caller of updateNotificationStatus.
NextStatus ==
  \/ \E pr \in {"urgent", "normal"} : admitDirect("p1", "email", pr)
  \/ enqueueNotificationPush("p1")
  \/ enqueueNotificationSet("p1")
  \/ admitDone("p1")
  \/ \E id \in KnownIds, st \in Statuses : clientUpdate("c1", id, st)
  \/ updateNotificationStatusGet("c1")
  \/ updateNotificationStatusSet("c1")

SpecStatus == Init /\ [][NextStatus]_vars

\* Dispatch: admission, a worker, the retry lane and its sweep, the clock.
Next ==
  \/ nextId <= MaxDispatched /\ admitDirect("p1", "email", "normal")
  \/ enqueueNotificationPush("p1")
  \/ enqueueNotificationSet("p1")
  \/ admitDone("p1")
  \/ dequeueNotification("w1", "email")
  \/ updateNotificationStatusGet("w1")
  \/ updateNotificationStatusSet("w1")
  \/ \E r \in SendResults : workerSend("w1", r)
  \/ workerFinish("w1")
  \/ moveToRetryQueue("w1")
  \/ \E i \in 1..MaxIds : retrySweep(i)
  \/ Tick

Spec == Init /\ [][Next]_vars

\* ------------------------------------------------------------------ claims
QueueOf(t) == lists[Prefixed(queueMap[t])]

\* the positions of the urgent/high pushes in a batch
HighIn(b) == {i \in 1..Len(b) : IsHigh(b[i][2])}
Latest(S) == CHOOSE i \in S : \A j \in S : j <= i

\* C1: when an urgent/high envelope was pushed on a channel since its
\* previous dequeue, after any number of normal/low ones (and with only
\* normal/low ones after it), the dequeue returns that envelope.
C1_HighPriorityDequeuedFirst ==
  \A t \in Types :
    HighIn(lastBatch[t]) # {}
    => deqd[t] = lastBatch[t][Latest(HighIn(lastBatch[t]))][1]

\* normal/low envelopes, then an urgent/high one, then the dequeue
C1_Witness ==
  /\ Len(lastBatch["email"]) = MaxIds
  /\ HighIn(lastBatch["email"]) = {MaxIds}
  /\ deqd["email"] = lastBatch["email"][MaxIds][1]

\* C2: two envelopes of the same lane pushed one after the other with no
\* dequeue in between are dequeued in the order they were pushed: no dequeue
\* returns the later one while the earlier one is still queued.
C2_FifoWithinLane ==
  [][\A t \in Types :
       Len(QueueOf(t))' < Len(QueueOf(t))
       => ~\E pr \in before : pr[2] = deqd'[t]]_vars

AllIds == {<<t, tm, r>> : t \in Types, tm \in 0..MaxTime, r \in 1..MaxIds}

statusOf(id) == getNotificationStatus(id).status

\* C3: once enqueueNotification has returned an id, and until an
\* updateNotificationStatus writes that record or its TTL elapses,
\* getNotificationStatus(id) returns a record with status pending and
\* attempts 0, whatever the workers have dequeued meanwhile.
C3_PendingAfterEnqueue ==
  \A p \in Producers :
    ( /\ prod[p].pc = "returned"
      /\ prod[p].ret \notin touched
      /\ now < prod[p].setAt + ttlNotification )
    => /\ statusOf(prod[p].ret) = "pending"
       /\ getNotificationStatus(prod[p].ret).attempts = 0

\* the id was returned while a worker already holds the dequeued envelope
C3_Witness ==
  /\ prod["p1"].pc = "returned"
  /\ prod["p1"].ret \notin touched
  /\ work["w1"].pc = "finishing_sent"
  /\ work["w1"].env.id = prod["p1"].ret
  /\ statusOf(prod["p1"].ret) = "pending"

\* C4: the k-th checkRateLimit served in a window returns allowed exactly
\* when k <= limit, with remaining = limit - k floored at 0.
C4_RateResultByCall ==
  \A p \in Producers :
    prod[p].pc = "rl_done"
    => /\ prod[p].allowed = (prod[p].k <= perUser)
       /\ prod[p].remaining =
            (IF prod[p].k <= perUser THEN perUser - prod[p].k ELSE 0)
       /\ prod[p].remaining >= 0

\* call limit+1 of a window is the one that is denied
C4_Witness ==
  \E p \in Producers :
    /\ prod[p].pc = "rl_done"
    /\ prod[p].k = perUser + 1
    /\ ~prod[p].allowed
    /\ prod[p].remaining = 0

AdmittedIn(key, w) == {a \in admitted : a.key = key /\ a.win = w}

RetryLane == lists[Prefixed(retryQueue)]

\* C6: no envelope in the retry lane has more attempts than maxRetries, and
\* a worker handling the failure of an envelope whose attempts are exhausted
\* writes status failed, never retry.
C6_AttemptsBounded ==
  /\ \A i \in 1..Len(RetryLane) : Parse(RetryLane[i]).attempts <= maxRetries
  /\ \A w \in Workers :
       ( /\ work[w].pc \in {"retrying", "finishing_failed"}
         /\ attemptsOf(work[w].env) >= maxRetries )
       => /\ work[w].pc = "finishing_failed"
          /\ upd[w].status = "failed"

\* an envelope that failed after its last allowed attempt
C6_Witness ==
  \E w \in Workers :
    /\ work[w].pc = "finishing_failed"
    /\ attemptsOf(work[w].env) = maxRetries
    /\ upd[w].extra.failureReason = "transient"

\* C7: once a status record is sent or failed, no later step changes its
\* status to anything else.
C7_TerminalStatusFinal ==
  [][\A id \in AllIds :
       (statusOf(id) \in {"sent", "failed"} /\ statusOf(id)' # "null")
       => statusOf(id)' = statusOf(id)]_vars

\* C8: after the worker's update(id, sent) has returned, the status record
\* of the envelope, as long as it exists, has status sent.
C8_SentAfterSuccess ==
  \A id \in DOMAIN outcome :
    (outcome[id] = "sent" /\ statusOf(id) # "null") => statusOf(id) = "sent"

\* C9: after the first transient failure of an envelope, while it waits in
\* the retry lane its status record has status retry and attempts 1, and no
\* envelope that went through the retry lane is in a channel queue before its
\* nextRetry.
C9_RetryAfterTransientFailure ==
  /\ \A i \in 1..Len(RetryLane) :
       LET n == Parse(RetryLane[i])
       IN (n.attempts = 1 /\ statusOf(n.id) # "null")
          => /\ statusOf(n.id) = "retry"
             /\ getNotificationStatus(n.id).attempts = 1
  /\ \A t \in Types : \A i \in 1..Len(QueueOf(t)) :
       LET n == Parse(QueueOf(t)[i])
       IN "nextRetry" \in DOMAIN n => DateOf(n.nextRetry) <= now

\* The retry lane on its own: every send fails transiently.
NextRetry ==
  \/ nextId <= MaxDispatched /\ admitDirect("p1", "email", "normal")
  \/ enqueueNotificationPush("p1")
  \/ enqueueNotificationSet("p1")
  \/ admitDone("p1")
  \/ dequeueNotification("w1", "email")
  \/ updateNotificationStatusGet("w1")
  \/ updateNotificationStatusSet("w1")
  \/ workerSend("w1", "transient")
  \/ workerFinish("w1")
  \/ moveToRetryQueue("w1")
  \/ \E i \in 1..MaxIds : retrySweep(i)
  \/ Tick

\* The sweep is a periodic task and the clock runs.
FairSpec ==
  /\ Init /\ [][NextRetry]_vars
  /\ WF_vars(Tick)
  /\ WF_vars(\E i \in 1..MaxIds : retrySweep(i))

\* the envelope whose id was the r-th generated
InRetryLane(r) ==
  \E i \in 1..Len(RetryLane) : Parse(RetryLane[i]).id[3] = r
InQueue(r) ==
  \E t \in Types : \E i \in 1..Len(QueueOf(t)) : Parse(QueueOf(t)[i]).id[3] = r

DaysToKeep == {0, 1}

\* Status records over time: admissions, the clock and cleanup runs.
NextClean ==
  \/ admitDirect("p1", "email", "normal")
  \/ enqueueNotificationPush("p1")
  \/ enqueueNotificationSet("p1")
  \/ admitDone("p1")
  \/ \E d \in DaysToKeep : cleanupOldNotifications(d)
  \/ Tick

SpecClean == Init /\ [][NextClean]_vars

\* the stored status records, and those older than now - daysToKeep
StatusRecords ==
  {k \in DOMAIN kv : Len(k) = 4 /\ k[3] = "notification:status:"}
OldRecords(daysToKeep) ==
  {k \in StatusRecords :
     DateOf(Parse(kv[k].val).timestamp) < now - daysToKeep * dayUnit}

JustCleaned == clean.streak > 0 /\ clean.at = now /\ clean.after = kv

\* C13: right after a cleanupOldNotifications(maxAge) run no status record
\* older than now - maxAge is left, only such records were removed, and the
\* returned count is the number of records removed.
C13_CleanupRemovesOld ==
  JustCleaned
  => /\ OldRecords(clean.days) = {}
     /\ \A k \in DOMAIN clean.removed :
          DateOf(Parse(clean.removed[k].val).timestamp)
            < now - clean.days * dayUnit
     /\ clean.deleted = Cardinality(DOMAIN clean.removed)

\* Status records under update: one admission channel, any caller of
\* updateNotificationStatus, the clock.
NextTtl ==
  \/ nextId <= MaxDispatched /\ admitDirect("p1", "email", "normal")
  \/ enqueueNotificationPush("p1")
  \/ enqueueNotificationSet("p1")
  \/ admitDone("p1")
  \/ \E id \in KnownIds, st \in Statuses : clientUpdate("c1", id, st)
  \/ updateNotificationStatusGet("c1")
  \/ updateNotificationStatusSet("c1")
  \/ Tick

SpecTtl == Init /\ [][NextTtl]_vars

\* C14: a status record written by updateNotificationStatus expires, counted
\* from that update, after twice the base notification TTL when its status
\* is failed, after the cache TTL when it is sent, and after the base
\* notification TTL for pending, processing and retry.
C14_TtlByStatus ==
  \A k \in StatusRecords :
    LET rec == Parse(kv[k].val)
    IN "lastUpdate" \in DOMAIN rec
       => kv[k].exp = DateOf(rec.lastUpdate)
                        + (CASE rec.status = "failed" -> 2 * ttlNotification
                             [] rec.status = "sent" -> ttlCache
                             [] OTHER -> ttlNotification)

\* a failed record that outlives the base TTL counted from its update
C14_Witness ==
  \E k \in StatusRecords :
    /\ "lastUpdate" \in DOMAIN Parse(kv[k].val)
    /\ Parse(kv[k].val).status = "failed"
    /\ now >= DateOf(Parse(kv[k].val).lastUpdate) + ttlNotification

\* C15: an updateNotificationStatus call never creates a status record: when
\* the record of its id is missing at the moment the call writes, for one
\* that expired or was deleted while the call was in progress too, the id
\* still has no record after the call.
C15_UpdateNeverCreates ==
  [][\A c \in Callers :
       ( /\ upd[c].pc \in {"get", "set"}
         /\ upd'[c].pc = "ret"
         /\ statusOf(upd[c].id) = "null" )
       => statusOf(upd[c].id)' = "null"]_vars

\* Admission against a store that may fail: one producer, one worker.
NextAdmit ==
  \/ \E pr \in {"urgent", "normal"} : admitDirect("p1", "email", pr)
  \/ enqueueNotificationPush("p1")
  \/ enqueueNotificationPushError("p1")
  \/ enqueueNotificationSet("p1")
  \/ enqueueNotificationSetError("p1")
  \/ admitDone("p1")
  \/ dequeueNotification("w1", "email")
  \/ updateNotificationStatusGet("w1")
  \/ updateNotificationStatusSet("w1")
  \/ workerSend("w1", "ok")
  \/ workerFinish("w1")

SpecAdmit == Init /\ [][NextAdmit]_vars

\* the envelope with this id is in a channel queue or in a worker's hands
Dispatchable(id) ==
  \/ \E t \in Types : \E i \in 1..Len(QueueOf(t)) :
       Parse(QueueOf(t)[i]).id = id
  \/ \E w \in Workers : work[w].pc # "idle" /\ work[w].env.id = id

\* C16: the caller of enqueueNotification gets an id only for an envelope
\* that was placed in its channel queue, and when the call has failed with an
\* error the envelope is in no queue and is not dispatched.
C16_AdmissionAllOrNothing ==
  \A p \in Producers :
    /\ prod[p].pc = "returned"
       => (Dispatchable(prod[p].ret) \/ prod[p].ret \in DOMAIN outcome)
    /\ prod[p].pc = "threw" => ~Dispatchable(prod[p].nd.id)

\* Competing consumers: one producer and two workers on one channel.
NextWorkers ==
  \/ \E pr \in {"urgent", "normal"} : admitDirect("p1", "email", pr)
  \/ enqueueNotificationPush("p1")
  \/ enqueueNotificationSet("p1")
  \/ admitDone("p1")
  \/ \E w \in Workers : dequeueNotification(w, "email")
  \/ \E w \in Workers : updateNotificationStatusGet(w)
  \/ \E w \in Workers : updateNotificationStatusSet(w)
  \/ \E w \in Workers : workerSend(w, "ok")
  \/ \E w \in Workers : workerFinish(w)

SpecWorkers == Init /\ [][NextWorkers]_vars

NextStats ==
  \/ nextId <= MaxDispatched + 1
     /\ \E t \in Types : admitDirect("p1", t, "normal")
  \/ enqueueNotificationPush("p1")
  \/ enqueueNotificationSet("p1")
  \/ admitDone("p1")
  \/ \E id \in KnownIds, st \in {"processing", "sent", "failed"} :
       clientUpdate("c1", id, st)
  \/ updateNotificationStatusGet("c1")
  \/ updateNotificationStatusSet("c1")
  \/ getQueueStats

SpecStats == Init /\ [][NextStats]_vars

\* no admission and no status update is in progress, no worker holds an envelope
Quiescent ==
  /\ \A p \in Producers : prod[p].pc \in {"idle", "returned", "rejected", "threw"}
  /\ \A c \in Callers : upd[c].pc \in {"none", "ret"}
  /\ \A w \in Workers : work[w].pc = "idle"

LiveCount(st) ==
  Cardinality({k \in StatusRecords : Parse(kv[k].val).status = st})

\* C18: a getQueueStats call made in a quiescent state returns the depth of
\* each channel queue, a total that is the sum of the three depths, and for
\* each status the number of live status records that have it.
C18_StatsMatchStore ==
  [][(stats'.calls # stats.calls /\ Quiescent)
     => /\ stats'.queues.email = Len(QueueOf("email"))
        /\ stats'.queues.sms = Len(QueueOf("sms"))
        /\ stats'.queues.total = stats'.queues.email + stats'.queues.push
                                   + stats'.queues.sms
        /\ \A st \in Statuses : stats'.status[st] = LiveCount(st)]_vars

\* --------------------------------------------------------------------- Server
SystemChannels == {"system:shutdown", "system:maintenance"}

\* the rest of the state, which the Server's own steps leave alone
store == <<now, lists, kv, nextId, prod, work, upd, batch, lastBatch, deqd,
           before, winId, winCalls, calls, admitted, touched, outcome, tally,
           clean, stats, mgr, bus, sweep>>

\* Somebody publishes on a system channel; Redis hands the message to the
\* subscriber client while it is connected and subscribed.
publish(channel) ==
  /\ srv.proc = "up"
  /\ srv.redis = "connected"
  /\ srv.sub
  /\ srv.sent < MaxRuns
  /\ srv' = [srv EXCEPT !.sent = @ + 1,
                        !.inbox = @ \cup {<<channel, srv.sent + 1>>}]
  /\ UNCHANGED store

\* Server.shutdown, up to its first await: httpServer.close(callback).
\* close() on a server that is no longer listening calls back with an error,
\* the promise rejects and shutdown throws before it reaches Redis.
shutdownCall(r, origin) ==
  [srv EXCEPT !.run[r] = [pc |-> IF srv.http = "listening" THEN "closing"
                                 ELSE "threw",
                          by |-> origin],
              !.http = IF srv.http = "listening" THEN "closing" ELSE @]

\* process.on("SIGTERM" | "SIGINT"): handleShutdown calls server.shutdown()
handleShutdown(r) ==
  /\ srv.proc = "up"
  /\ srv.run[r].pc = "idle"
  /\ srv' = shutdownCall(r, "signal")
  /\ UNCHANGED store

\* subscribe('system:shutdown', async (message) => { await this.shutdown() })
onShutdownMessage(r) ==
  /\ srv.proc = "up"
  /\ srv.run[r].pc = "idle"
  /\ \E m \in srv.inbox :
       /\ m[1] = "system:shutdown"
       /\ srv' = [shutdownCall(r, "message") EXCEPT !.inbox = @ \ {m},
                                                   !.shutdownSeen = TRUE]
  /\ UNCHANGED store

\* subscribe('system:maintenance', (message) => { this.logger.info(...) })
\* srv.maintAt notes which ids are generated after the message was received.
onMaintenanceMessage ==
  /\ srv.proc = "up"
  /\ \E m \in srv.inbox :
       /\ m[1] = "system:maintenance"
       /\ srv' = [srv EXCEPT !.inbox = @ \ {m},
                             !.maintAt = IF @ = 0 THEN nextId ELSE @]
  /\ UNCHANGED store

\* The open connections have ended: the close callback runs without error.
httpClosed ==
  /\ srv.proc = "up"
  /\ srv.http = "closing"
  /\ srv' = [srv EXCEPT
               !.http = "closed",
               !.run = [r \in Runs |->
                          IF srv.run[r].pc = "closing"
                          THEN [srv.run[r] EXCEPT !.pc = "unsubscribing"]
                          ELSE srv.run[r]]]
  /\ UNCHANGED store

\* try { await this.redisManager.unsubscribe() } catch { log }
shutdownUnsubscribe(r) ==
  /\ srv.proc = "up"
  /\ srv.run[r].pc = "unsubscribing"
  /\ srv' = [srv EXCEPT !.run[r].pc = "disconnecting",
                        !.sub = FALSE, !.inbox = {}]
  /\ UNCHANGED store

\* await this.redisManager.disconnect(): both clients quit
shutdownDisconnect(r) ==
  /\ srv.proc = "up"
  /\ srv.run[r].pc = "disconnecting"
  /\ srv' = [srv EXCEPT !.run[r].pc = "done", !.redis = "disconnected"]
  /\ UNCHANGED store

\* handleShutdown after its await: process.exit(0), or process.exit(1) in
\* the catch when shutdown threw.
processExit(r) ==
  /\ srv.proc = "up"
  /\ srv.run[r].by = "signal"
  /\ srv.run[r].pc \in {"done", "threw"}
  /\ srv' = [srv EXCEPT !.proc = "exited"]
  /\ UNCHANGED store

\* getClient(): the admission path needs the process and an initialized client
ClientReady == srv.proc = "up" /\ srv.redis = "connected"

\* The server with its signals and system messages, and an admission caller.
NextServer ==
  \/ \E ch \in SystemChannels : publish(ch)
  \/ \E r \in Runs : handleShutdown(r)
  \/ \E r \in Runs : onShutdownMessage(r)
  \/ onMaintenanceMessage
  \/ httpClosed
  \/ \E r \in Runs : shutdownUnsubscribe(r)
  \/ \E r \in Runs : shutdownDisconnect(r)
  \/ \E r \in Runs : processExit(r)
  \/ ClientReady /\ nextId <= MaxDispatched + 1
     /\ admitDirect("p1", "email", "normal")
  \/ ClientReady /\ enqueueNotificationPush("p1")
  \/ ClientReady /\ enqueueNotificationSet("p1")
  \/ admitDone("p1")

SpecServer == Init /\ [][NextServer]_vars

\* C19: the Redis clients are disconnected only once the HTTP server has
\* closed, and every Server.shutdown run releases them: no run has ended,
\* and the process has not exited, with the clients still connected.
C19_ShutdownReleasesStore ==
  /\ srv.redis = "disconnected" => srv.http = "closed"
  /\ \A r \in Runs :
       srv.run[r].pc \in {"done", "threw"} => srv.redis = "disconnected"
  /\ srv.proc = "exited" => srv.redis = "disconnected"

\* C20: once the subscriber has received a system:maintenance message the
\* admission path sees maintenance mode, so no envelope whose admission
\* started after it is enqueued; and a received system:shutdown message has
\* started a shutdown run.
C20_SubscriberReacts ==
  /\ srv.maintAt > 0
     => \A p \in Producers :
          prod[p].pc \in {"enq_set", "returned"}
          => prod[p].nd.id[3] < srv.maintAt
  /\ srv.shutdownSeen => \E r \in Runs : srv.run[r].pc # "idle"

\* ------------------------------------------------- rate window under load
\* C21: in every reachable state every rate-limit counter that exists has a
\* window expiry set; the counter never lives without a TTL, not even between
\* the store round trips of a checkRateLimit call.
C21_CounterHasExpiry ==
  \A k \in RateKeys : k \in DOMAIN kv => kv[k].exp # NoExpiry

\* A burst: three callers check the same user and channel at once.
NextBurst ==
  \/ \E p \in BurstCallers : admitChecked(p, "u1", "sms", "normal")
  \/ \E p \in BurstCallers : checkRateLimitIncr(p)
  \/ \E p \in BurstCallers : checkRateLimitExpire(p)
  \/ \E p \in BurstCallers : checkRateLimitTtl(p)
  \/ Tick

SpecBurst == Init /\ [][NextBurst]_vars

BurstKey == Prefixed(rateKey("sms", "u1"))
\* the calls whose INCR was served in the window that is open now
InWindow ==
  {p \in BurstCallers : /\ prod[p].pc \in {"rl_expire", "rl_ttl", "rl_done"}
                        /\ prod[p].win = winId[BurstKey]}
Min(a, b) == IF a < b THEN a ELSE b

\* C22: of N checkRateLimit calls on one (user, channel) running concurrently
\* in one window that started with no counter, no increment is lost: the
\* counter stands at N, and once they have returned exactly min(N, limit) of
\* them returned allowed=true.
C22_NoLostIncrement ==
  BurstKey \in DOMAIN kv
  => /\ kv[BurstKey].val = Cardinality(InWindow)
     /\ (\A p \in InWindow : prod[p].pc = "rl_done")
        => Cardinality({p \in InWindow : prod[p].allowed})
             = Min(Cardinality(InWindow), perUser)

\* three calls overlapped in one window: all were counted, one was denied
C22_Witness ==
  /\ BurstKey \in DOMAIN kv
  /\ InWindow = BurstCallers
  /\ \A p \in BurstCallers : prod[p].pc = "rl_done"
  /\ kv[BurstKey].val = 3
  /\ kv[BurstKey].exp # NoExpiry
  /\ Cardinality({p \in BurstCallers : prod[p].allowed}) = perUser
  /\ \E p \in BurstCallers : prod[p].k = 1 /\ prod[p].resetIn = window

\* ------------------------------------------------ concurrent status updates
\* what each caller passes as additionalData
ExtraOf == [w1 |-> [providerResponse |-> "accepted"],
            w2 |-> [failureReason |-> "timeout"]]

\* A caller of the public method with extra fields:
\* updateNotificationStatus(id, status, additionalData).
updateWith(c, notificationId, status, additionalData) ==
  /\ upd[c].pc \in {"none", "ret"}
  /\ notificationId \in KnownIds
  /\ upd' = [upd EXCEPT ![c] = updateCall(notificationId, status,
                                          additionalData)]
  /\ UNCHANGED <<now, lists, kv, nextId, prod, work, batch, lastBatch, deqd,
                 before, winId, winCalls, calls, admitted, touched, outcome,
                 tally, clean, stats, srv, mgr, bus, sweep>>

\* Two callers update the status record of one envelope.
NextMerge ==
  \/ nextId <= MaxDispatched /\ admitDirect("p1", "email", "normal")
  \/ enqueueNotificationPush("p1")
  \/ enqueueNotificationSet("p1")
  \/ admitDone("p1")
  \/ \E c \in Workers, id \in KnownIds, st \in {"sent", "failed"} :
       updateWith(c, id, st, ExtraOf[c])
  \/ \E c \in Workers : updateNotificationStatusGet(c)
  \/ \E c \in Workers : updateNotificationStatusSet(c)

SpecMerge == Init /\ [][NextMerge]_vars

\* the call of c has written the record of id and returned
Wrote(c, id) == upd[c].pc = "ret" /\ upd[c].id = id /\ upd[c].cur # <<>>

\* C23: no update of a status record is lost: after two
\* updateNotificationStatus calls on one existing id, run concurrently with
\* different extra fields, the record holds the extra fields of both calls
\* and the status one of them wrote.
C23_NoLostUpdate ==
  \A id \in KnownIds :
    (Wrote("w1", id) /\ Wrote("w2", id) /\ Exists(statusKey(id)))
    => LET r == Get(statusKey(id))
       IN /\ \A c \in Workers : \A f \in DOMAIN ExtraOf[c] :
               f \in DOMAIN r /\ r[f] = ExtraOf[c][f]
          /\ r.status \in {upd["w1"].status, upd["w2"].status}

\* C24: the rate window is fixed: only the first checkRateLimit of a window
\* sets the window's expiry (to now + window), every later check in the
\* window leaves the expiry as it is, and the first check after a window has
\* expired starts a new window: it counts 1 and returns remaining = limit - 1.
C24_FixedWindow ==
  [][/\ (/\ BurstKey \in DOMAIN kv
         /\ BurstKey \in DOMAIN kv'
         /\ kv[BurstKey].exp # NoExpiry)
        => kv'[BurstKey].exp = kv[BurstKey].exp
     /\ (/\ BurstKey \in DOMAIN kv'
         /\ kv'[BurstKey].exp # NoExpiry
         /\ (BurstKey \notin DOMAIN kv \/ kv[BurstKey].exp = NoExpiry))
        => /\ kv'[BurstKey].exp = now + window
           /\ \E p \in BurstCallers : /\ prod[p].pc = "rl_expire"
                                      /\ prod'[p].pc = "rl_ttl"
                                      /\ prod[p].k = 1
     /\ \A p \in BurstCallers :
          (prod[p].pc = "rl_ttl" /\ prod'[p].pc = "rl_done" /\ prod[p].k = 1)
          => /\ prod'[p].cur = 1
             /\ prod'[p].allowed
             /\ prod'[p].remaining = perUser - 1]_vars

\* a second window: its first check counted 1 and set the expiry, a later
\* check in it counted 2 and the expiry is still the one the first check set
C24_Witness ==
  \E p, q \in BurstCallers :
    /\ prod[p].pc = "rl_done" /\ prod[p].win = 1 /\ prod[p].k = 1
    /\ prod[p].remaining = perUser - 1
    /\ prod[q].pc = "rl_done" /\ prod[q].win = 1 /\ prod[q].k = 2
    /\ BurstKey \in DOMAIN kv
    /\ winId[BurstKey] = 1
    /\ kv[BurstKey].exp = now - 1 + window

\* ------------------------------------------------ RedisManager: connection
data == <<now, lists, kv, nextId, prod, work, upd, batch, lastBatch, deqd,
          before, winId, winCalls, calls, admitted, touched, outcome, tally,
          clean, stats, srv, bus, sweep>>

\* isConnected(): initialized and both clients there with status "ready"
isConnected ==
  /\ mgr.initialized
  /\ mgr.client # 0 /\ mgr.client \in mgr.ready
  /\ mgr.subscriber # 0 /\ mgr.subscriber \in mgr.ready

\* getClient() throws "Redis not initialized"
getClientThrows == ~mgr.initialized \/ mgr.client = 0

\* connect() up to its await: this.client = new Redis(...), this.subscriber =
\* new Redis(...), then wait for both to be ready
connectBegin(m, c, made) ==
  [m EXCEPT !.client = m.created + 1,
            !.subscriber = m.created + 1,
            !.created = m.created + 1,
            !.chain[c] = [pc |-> "waiting", gen |-> m.created + 1,
                          made |-> made + 1, quit |-> FALSE]]

\* initialize(): returns at once when initialized with a client; else connect()
initialize ==
  /\ ~(mgr.initialized /\ mgr.client # 0)
  /\ mgr.chain["init"].pc = "idle"
  /\ mgr.created < MaxClients
  /\ mgr' = connectBegin([mgr EXCEPT !.disc = "idle"], "init", 0)
  /\ UNCHANGED data

\* the setInterval callback of startHealthChecks; the interval fires whether
\* or not the callback before it has returned
healthCheck(h) ==
  /\ mgr.health
  /\ mgr.chain[h].pc = "idle"
  /\ mgr.created < MaxClients
  /\ mgr' = IF ~isConnected
            THEN connectBegin([mgr EXCEPT !.reconnectAttempts = 0], h, 0)
            ELSE mgr
  /\ UNCHANGED data

\* both waitForConnection promises resolve: initialized = true,
\* reconnectAttempts = 0; initialize() goes on to startHealthChecks()
connectReady(c) ==
  /\ mgr.chain[c].pc = "waiting"
  /\ ~mgr.chain[c].quit
  /\ mgr' = [mgr EXCEPT !.initialized = TRUE,
                        !.reconnectAttempts = 0,
                        !.ready = @ \cup {mgr.chain[c].gen},
                        !.health = IF c = "init" THEN TRUE ELSE @,
                        !.chain[c].pc = "done"]
  /\ UNCHANGED data

\* a waitForConnection promise rejects (error or timeout): reconnectAttempts++,
\* then either wait reconnectDelay or throw
connectFail(c) ==
  /\ mgr.chain[c].pc = "waiting"
  /\ mgr' = [mgr EXCEPT !.reconnectAttempts = @ + 1,
                        !.chain[c].pc =
                          IF mgr.reconnectAttempts + 1 <= maxReconnectAttempts
                          THEN "delay" ELSE "threw"]
  /\ UNCHANGED data

\* the delay is over: return this.connect()
connectRetry(c) ==
  /\ mgr.chain[c].pc = "delay"
  /\ mgr.created < MaxClients
  /\ mgr' = connectBegin(mgr, c, mgr.chain[c].made)
  /\ UNCHANGED data

\* the caller of connect() has its result: initialize() returns or throws,
\* the health-check callback returns or logs the error
connectEnd(c) ==
  /\ mgr.chain[c].pc \in {"done", "threw"}
  /\ mgr' = [mgr EXCEPT !.chain[c].pc = "idle"]
  /\ UNCHANGED data

\* the connection of the current clients drops
connectionLost ==
  /\ mgr.client # 0
  /\ mgr.client \in mgr.ready
  /\ mgr' = [mgr EXCEPT !.ready = @ \ {mgr.client}]
  /\ UNCHANGED data

\* disconnect() up to its await: stopHealthChecks(), quit() on this.client and
\* this.subscriber; a connect() waiting for these clients will not see "ready"
disconnectBegin ==
  /\ mgr.disc = "idle"
  /\ mgr' = [mgr EXCEPT
               !.health = FALSE,
               !.ready = @ \ {mgr.client},
               !.chain = [c \in Chains |->
                            IF mgr.client # 0 /\ mgr.chain[c].pc = "waiting"
                               /\ mgr.chain[c].gen = mgr.client
                            THEN [mgr.chain[c] EXCEPT !.quit = TRUE]
                            ELSE mgr.chain[c]],
               !.disc = "quitting"]
  /\ UNCHANGED data

\* disconnect() after Promise.all: client = null, subscriber = null,
\* initialized = false
disconnectEnd ==
  /\ mgr.disc = "quitting"
  /\ mgr' = [mgr EXCEPT !.client = 0, !.subscriber = 0,
                        !.initialized = FALSE, !.disc = "done"]
  /\ UNCHANGED data

NextManager ==
  \/ initialize
  \/ \E h \in {"h1", "h2"} : healthCheck(h)
  \/ \E c \in Chains : connectReady(c)
  \/ \E c \in Chains : connectFail(c)
  \/ \E c \in Chains : connectRetry(c)
  \/ \E c \in Chains : connectEnd(c)
  \/ connectionLost
  \/ disconnectBegin
  \/ disconnectEnd

SpecManager == Init /\ [][NextManager]_vars

\* C25: once disconnect() has completed the manager stays disconnected until
\* initialize() is called again: initialized is false, both clients are
\* null and getClient throws, also when a health-check callback was in the
\* middle of a reconnect when disconnect was called.
C25_StaysDisconnected ==
  mgr.disc = "done"
  => /\ ~mgr.initialized
     /\ mgr.client = 0
     /\ mgr.subscriber = 0
     /\ getClientThrows

\* C30: connect() under connection failures: a call makes at most
\* maxReconnectAttempts + 1 attempts and then throws, reconnectAttempts never
\* exceeds maxReconnectAttempts + 1, and a successful connection leaves
\* reconnectAttempts = 0 and initialized = true.
C30_ConnectBounded ==
  [][/\ mgr'.reconnectAttempts <= maxReconnectAttempts + 1
     /\ \A c \in Chains :
          /\ mgr'.chain[c].made <= maxReconnectAttempts + 1
          /\ (mgr.chain[c].pc = "waiting" /\ mgr'.chain[c].pc = "threw")
             => mgr'.reconnectAttempts > maxReconnectAttempts
          /\ (mgr.chain[c].pc = "waiting" /\ mgr'.chain[c].pc = "done")
             => mgr'.reconnectAttempts = 0 /\ mgr'.initialized]_vars

\* C26: Server.shutdown may be triggered more than once, by a signal and by
\* a system:shutdown message, one after the other or overlapping: no
\* invocation ends with an error, and the process does not end with the
\* Redis clients still connected.
C26_ShutdownRepeatable ==
  {srv.run[r].by : r \in Runs} = {"signal", "message"}
  => /\ \A r \in Runs : srv.run[r].pc # "threw"
     /\ srv.proc = "exited" => srv.redis = "disconnected"

\* ---------------------------------------- RedisManager.subscribe / unsubscribe
rest == <<now, lists, kv, nextId, prod, work, upd, batch, lastBatch, deqd,
          before, winId, winCalls, calls, admitted, touched, outcome, tally,
          clean, stats, srv, mgr, sweep>>

\* subscribe(channel, callback) up to its await: SUBSCRIBE channel
subscribeBegin(channel, callback) ==
  /\ bus.call.pc = "idle"
  /\ bus.calls < MaxSubs
  /\ callback \notin bus.active[channel]
  /\ bus' = [bus EXCEPT !.subscribed = @ \cup {channel},
                        !.calls = @ + 1,
                        !.call = [pc |-> "subscribed", channel |-> channel,
                                  callback |-> callback]]
  /\ UNCHANGED rest

\* subscribe after the await: subscriber.on("message", listener); the
\* listener calls the callback when receivedChannel === channel
subscribeListen ==
  /\ bus.call.pc = "subscribed"
  /\ bus' = [bus EXCEPT
               !.listeners = Append(@, <<bus.call.channel, bus.call.callback>>),
               !.active[bus.call.channel] = @ \cup {bus.call.callback},
               !.call.pc = "idle"]
  /\ UNCHANGED rest

\* unsubscribe(channel): UNSUBSCRIBE channel; the listeners stay on the client
unsubscribe(channel) ==
  /\ bus.call.pc = "idle"
  /\ channel \in bus.subscribed
  /\ bus' = [bus EXCEPT !.subscribed = @ \ {channel},
                        !.active[channel] = {}]
  /\ UNCHANGED rest

\* how many times the "message" event for receivedChannel calls callback:
\* once per listener that was registered for that channel with that callback
Invocations(listeners, receivedChannel, callback) ==
  Cardinality({i \in 1..Len(listeners) :
                 listeners[i] = <<receivedChannel, callback>>})

\* A message is published on a channel. When the subscriber client is
\* subscribed to it, the client emits "message" and every listener runs.
\* log keeps, per message, whom it called, whom it was published for and
\* whether no subscribe call was in progress.
publishMessage(channel) ==
  /\ bus.sent < MaxMsgs
  /\ bus' = [bus EXCEPT
               !.sent = @ + 1,
               !.log = @ \cup
                 {[n |-> bus.sent + 1, channel |-> channel,
                   for |-> bus.active[channel],
                   quiet |-> bus.call.pc = "idle",
                   got |-> [cb \in Callbacks |->
                              IF channel \in bus.subscribed
                              THEN Invocations(bus.listeners, channel, cb)
                              ELSE 0]]}]
  /\ UNCHANGED rest

NextBus ==
  \/ \E ch \in Channels, cb \in Callbacks : subscribeBegin(ch, cb)
  \/ subscribeListen
  \/ \E ch \in Channels : unsubscribe(ch)
  \/ \E ch \in Channels : publishMessage(ch)

SpecBus == Init /\ [][NextBus]_vars

\* C27: a message published on a channel (no subscribe call being in
\* progress) invokes exactly once each callback
\* that is registered for that channel by a subscribe not yet undone by
\* unsubscribe, and invokes no other callback: not the callbacks of other
\* channels, and not a callback registered before unsubscribe(channel) when
\* the channel was subscribed again with another callback.
C27_CallbackOncePerMessage ==
  \A m \in bus.log : \A cb \in Callbacks :
    m.quiet => m.got[cb] = (IF cb \in m.for THEN 1 ELSE 0)

\* ----------------------- RedisManager.cleanupOldNotifications, step by step
others == <<now, lists, nextId, prod, work, upd, batch, lastBatch, deqd,
            before, winId, winCalls, calls, admitted, touched, outcome, tally,
            clean, stats, srv, mgr, bus>>

\* returns the number of old status records in the store
sweepResultOld(r) ==
  Cardinality({k \in StatusRecords :
                 DateOf(Parse(kv[k].val).timestamp) < r.cutoff})

\* return deleted
sweepResult(r) == r.deleted

\* const keys = await this.keys(pattern); cutoffDate; let deleted = 0
\* (overlap notes that another sweep was in progress when this one started)
sweepKeys(s, daysToKeep) ==
  /\ sweep.run[s].pc \in {"idle", "done"}
  /\ sweep.calls < MaxRuns
  /\ sweep' = [sweep EXCEPT
                 !.calls = @ + 1,
                 !.run[s] = [pc |-> "loop", keys |-> keys(statusPattern),
                             key |-> <<>>, at |-> now,
                             cutoff |-> now - daysToKeep * dayUnit,
                             deleted |-> 0,
                             overlap |-> \E t \in Sweepers \ {s} :
                                           sweep.run[t].pc \in {"loop", "del"}]]
  /\ UNCHANGED <<kv, others>>

\* One round trip of the loop: at "loop" the next key is read with this.get
\* (or, when no key is left, the call returns deleted); at "del" the key just
\* read is deleted with this.del and deleted++ follows, whatever DEL replied.
\* sweep.removed counts the records the DELs of the sweeps did remove.
sweepStep(s) ==
  LET r == sweep.run[s]
      old(key) == /\ Exists(key)
                  /\ "timestamp" \in DOMAIN Get(key)
                  /\ DateOf(Get(key).timestamp) < r.cutoff
  IN /\ r.pc \in {"loop", "del"}
     /\ IF r.pc = "del"
        THEN /\ kv' = Del(kv, {r.key})
             /\ sweep' = [sweep EXCEPT
                            !.removed = IF Exists(r.key) THEN @ + 1 ELSE @,
                            !.run[s] = [r EXCEPT !.pc = "loop",
                                                 !.keys = @ \ {r.key},
                                                 !.deleted = @ + 1]]
        ELSE /\ kv' = kv
             /\ IF r.keys = {}
                THEN sweep' = [sweep EXCEPT !.run[s].pc = "done",
                                            !.returned = @ + sweepResult(r)]
                ELSE \E key \in r.keys :
                       sweep' = [sweep EXCEPT
                                   !.run[s] =
                                     IF old(key)
                                     THEN [r EXCEPT !.pc = "del", !.key = key]
                                     ELSE [r EXCEPT !.keys = @ \ {key}]]
     /\ UNCHANGED others

\* Two cleanup sweeps beside an admission caller, the clock running.
NextSweep ==
  \/ nextId <= MaxDispatched /\ admitDirect("p1", "email", "normal")
  \/ enqueueNotificationPush("p1")
  \/ enqueueNotificationSet("p1")
  \/ admitDone("p1")
  \/ \E s \in Sweepers, d \in DaysToKeep : sweepKeys(s, d)
  \/ \E s \in Sweepers : sweepStep(s)
  \/ Tick

SpecSweep == Init /\ [][NextSweep]_vars

providerFailure(notificationId) ==
  [id |-> notificationId, status |-> "failed", recipient |-> "device",
   type |-> "push", failureReason |-> "timeout"]

\* additionalData as callers pass it: a counter, or a provider result
Extras(notificationId) ==
  {[attempts |-> 1], providerFailure(notificationId)}

\* One caller updates the record of an envelope, with extra fields.
NextExtra ==
  \/ nextId <= MaxDispatched /\ admitDirect("p1", "email", "normal")
  \/ enqueueNotificationPush("p1")
  \/ enqueueNotificationSet("p1")
  \/ admitDone("p1")
  \/ \E id \in KnownIds, st \in Statuses :
       \E extra \in Extras(id) : updateWith("c1", id, st, extra)
  \/ updateNotificationStatusGet("c1")
  \/ updateNotificationStatusSet("c1")

SpecExtra == Init /\ [][NextExtra]_vars

\* C29: after updateNotificationStatus(id, s, extra) on an existing record,
\* nothing else running, the stored record has status s and the id, type,
\* priority and timestamp it was created with, whatever extra holds.
C29_UpdateKeepsIdentity ==
  \A id \in KnownIds :
    (Wrote("c1", id) /\ Exists(statusKey(id)))
    => LET r == Get(statusKey(id))
       IN /\ r.status = upd["c1"].status
          /\ r.id = id
          /\ r.type = id[1]
          /\ r.priority = "normal"
          /\ r.timestamp = toISOString(id[2])

====
